---- MODULE Spec2Model ----
(***************************************************************************)
(* Model of cloud/amazon/ecs_cluster_facts.py: EcsClusterManager           *)
(* (list_clusters, describe_clusters, filter_clusters) and main().         *)
(* Strings (cluster names, the name parameter) are sequences of one-       *)
(* character strings; the ECS endpoint is the environment.                 *)
(***************************************************************************)
EXTENDS Integers, Sequences, FiniteSets, TLC

\* ------------------------------------------------------------------ bounds
MaxBatches == 2     \* describe batches an input may need, before the slack
MaxPages == 2       \* pages the endpoint may split the listing into
MaxPatLen == 2      \* characters in the name parameter
MaxRecs == 2        \* records handed to a direct call of filter_clusters

\* ------------------------------------------------------------ environment
\* The clusters the endpoint knows: ARN i has the name NameTable[i].
NameTable ==
  << <<"a">>, <<"a","b">>, <<"b","a">>, <<>>, <<"b">>, <<"a","a">>, <<"b","b">> >>

NumClusters == Len(NameTable)

ClusterRecord(arn) == [clusterArn |-> arn, clusterName |-> NameTable[arn]]

\* describe_clusters: cluster_max_size = 50
cluster_max_size == 50

Min(a, b) == IF a < b THEN a ELSE b

\* Lengths of the listing: around every multiple of the batch size.
ArnCounts ==
  {c \in {k * cluster_max_size + d : k \in 0..MaxBatches, d \in {-1, 0, 1, 20}} : c >= 0}

\* The n identifiers the endpoint lists (identifiers repeat once n > NumClusters).
ArnSeq(n) == [i \in 1..n |-> ((i - 1) % NumClusters) + 1]

\* The listing of n identifiers cut into np pages.
SplitPages(n, np) ==
  [k \in 1..np |-> SubSeq(ArnSeq(n), (k - 1) * (n \div np) + 1,
                          IF k = np THEN n ELSE k * (n \div np))]

PatternChars == {"a", "b", ".", "*"}

\* Values of the name parameter (and of filter_value).
Patterns == UNION {[1..n -> PatternChars] : n \in 0..MaxPatLen}

\* search_mode=dict(default='substring', choices=['substring', 'exact', 'regex'])
SearchModes == {"substring", "exact", "regex"}

\* Modes a direct caller of filter_clusters may pass ('refex' is the documented choice).
FilterModes == SearchModes \cup {"refex", ""}

None == <<>>

\* ---------------------------------------------------------- pure functions
\* Variant of StrContains: an empty filter_value is taken as "no filter given".
StrContains_NonEmpty(sub, s) ==
  /\ sub # <<>>
  /\ \E i \in 0..(Len(s) - Len(sub)) : SubSeq(s, i + 1, i + Len(sub)) = sub

\* filter_value in cluster[filter_param]  (str.__contains__)
StrContains(sub, s) ==
  \E i \in 0..(Len(s) - Len(sub)) : SubSeq(s, i + 1, i + Len(sub)) = sub

\* re.match compiles the pattern first: a '*' with nothing to repeat, or a
\* '*' right after a '*', is rejected with re.error.
ReCompiles(pat) ==
  \A i \in 1..Len(pat) : pat[i] = "*" => (i > 1 /\ pat[i - 1] # "*")

\* One pattern character against one subject character.
ReAtom(c, x) == c = "." \/ c = x

\* The matcher of re.match from pattern position i and subject position j:
\* TRUE when the rest of the pattern matches starting exactly at j.
RECURSIVE ReMatchFrom(_, _, _, _)
ReMatchFrom(pat, i, s, j) ==
  IF i > Len(pat) THEN TRUE
  ELSE IF i < Len(pat) /\ pat[i + 1] = "*"
    THEN \/ (j <= Len(s) /\ ReAtom(pat[i], s[j]) /\ ReMatchFrom(pat, i, s, j + 1))
         \/ ReMatchFrom(pat, i + 2, s, j)
    ELSE j <= Len(s) /\ ReAtom(pat[i], s[j]) /\ ReMatchFrom(pat, i + 1, s, j + 1)

\* Variant of re_match: re.search, a match starting at any position.
re_search(pat, s) == \E j \in 1..(Len(s) + 1) : ReMatchFrom(pat, 1, s, j)

\* re.match(r'%s' % filter_value, cluster[filter_param]): match at the start of the string
re_match(pat, s) == ReMatchFrom(pat, 1, s, 1)

\* Variant of FilterKeeps: the operands of 'in' are swapped.
FilterKeeps_SwappedIn(cluster, filter_param, filter_value, filter_mode) ==
  IF filter_mode = "substring" THEN StrContains(cluster[filter_param], filter_value)
  ELSE IF filter_mode = "exact" THEN cluster[filter_param] = filter_value
  ELSE IF filter_mode = "regex" THEN re_match(filter_value, cluster[filter_param])
  ELSE FALSE

\* Variant of FilterKeeps: the last branch is a plain else, not elif 'regex'.
FilterKeeps_ElseRegex(cluster, filter_param, filter_value, filter_mode) ==
  IF filter_mode = "substring" THEN StrContains(filter_value, cluster[filter_param])
  ELSE IF filter_mode = "exact" THEN cluster[filter_param] = filter_value
  ELSE re_match(filter_value, cluster[filter_param])

\* The test of one loop iteration of filter_clusters.
FilterKeeps(cluster, filter_param, filter_value, filter_mode) ==
  IF filter_mode = "substring" THEN StrContains(filter_value, cluster[filter_param])
  ELSE IF filter_mode = "exact" THEN cluster[filter_param] = filter_value
  ELSE IF filter_mode = "regex" THEN re_match(filter_value, cluster[filter_param])
  ELSE FALSE

\* Variant of FilterLoop: the 'exact' branch assigns the field instead of
\* comparing it, so every record is appended with its field overwritten.
FilterLoop_Overwrites(clusters, filter_param, filter_value, filter_mode) ==
  IF filter_mode = "exact"
    THEN [i \in 1..Len(clusters) |-> [clusters[i] EXCEPT ![filter_param] = filter_value]]
    ELSE LET Keeps(cluster) == FilterKeeps(cluster, filter_param, filter_value, filter_mode)
         IN SelectSeq(clusters, Keeps)

\* for cluster in clusters: ... filtered_clusters.append(cluster)
FilterLoop(clusters, filter_param, filter_value, filter_mode) ==
  LET Keeps(cluster) == FilterKeeps(cluster, filter_param, filter_value, filter_mode)
  IN SelectSeq(clusters, Keeps)

\* filter_clusters: the returned list, or the re.error of the first re.match.
filter_clusters(clusters, filter_param, filter_value, filter_mode) ==
  IF filter_mode = "regex" /\ Len(clusters) > 0 /\ ~ReCompiles(filter_value)
    THEN [raised |-> TRUE, error |-> <<"re.error">>]
    ELSE [raised |-> FALSE,
          value |-> FilterLoop(clusters, filter_param, filter_value, filter_mode)]

\* Variant of BatchOf: the slice is one identifier too long.
BatchOf_OneTooMany(arns) == SubSeq(arns, 1, Min(cluster_max_size + 1, Len(arns)))

\* cluster_arns[0:cluster_max_size]
BatchOf(arns) == SubSeq(arns, 1, Min(cluster_max_size, Len(arns)))

\* cluster_arns[cluster_max_size:]
RestOf(arns) == SubSeq(arns, cluster_max_size + 1, Len(arns))

\* Variant of ResponseOk: the comparison is off by one.
ResponseOk_MoreThanOne(clusters) == Len(clusters) > 1

\* if len(response['clusters'])>0
ResponseOk(clusters) == Len(clusters) > 0

\* "Unknown problem describing cluster %s." % cluster_arns
DescribeErrorText(arns) == <<"Unknown problem describing cluster ", arns, ".">>

\* Variant of FailJson: the message leaves the name parameter out.
FailJson_NoName(name, e) ==
  [failed |-> TRUE, msg |-> <<"Exception describing cluster '", <<>>, "': ", e>>]

\* module.fail_json(msg="Exception describing cluster '"+module.params['name']+"': "+str(e))
FailJson(name, e) ==
  [failed |-> TRUE, msg |-> <<"Exception describing cluster '", name, "': ", e>>]

\* results = dict(changed=False); results['clusters'] = cluster_filtered; module.exit_json(**results)
ExitJson(cluster_filtered) == [changed |-> FALSE, clusters |-> cluster_filtered]

\* The endpoint's answers to describe_clusters(clusters=batch).
DescribeAnswers(batch) ==
  {[i \in 1..Len(batch) |-> ClusterRecord(batch[i])], <<>>}
    \cup (IF Len(batch) >= 2
            THEN {[i \in 1..(Len(batch) - 1) |-> ClusterRecord(batch[i])]}
            ELSE {})

\* The endpoint's answer to the k-th list_clusters call.
ListAnswer(allpages, k) ==
  IF k < Len(allpages)
    THEN [clusterArns |-> allpages[k], nextToken |-> <<"token", k>>]
    ELSE [clusterArns |-> allpages[k]]

\* What a failing endpoint call raises.
ClientError == <<"ClientError">>

\* self.ecs_list_clusters: EcsClusterManager has no such attribute.
AttributeError == <<"AttributeError: ecs_list_clusters">>

\* ------------------------------------------------------------------ state
VARIABLES
  pc,                 \* where main() / the direct call stands
  name,               \* module.params['name']
  search_mode,        \* module.params['search_mode']
  pages,              \* the endpoint's listing, page by page
  list_calls,         \* list calls the endpoint has received
  list_arns,          \* list_clusters: cluster_arns
  cluster_arns,       \* main: cluster_arns
  arns_left,          \* describe_clusters: cluster_arns
  cluster_details,    \* describe_clusters: cluster_details
  describe_calls,     \* the clusters= argument of every describe call, in order
  describe_responses, \* response['clusters'] of every answered describe call
  raised,             \* the exceptions raised so far, in order
  output,             \* the results handed to exit_json / fail_json, in order
  fcall,              \* arguments of a direct call of filter_clusters
  fret                \* what that call returned or raised

vars == <<pc, name, search_mode, pages, list_calls, list_arns, cluster_arns, arns_left,
          cluster_details, describe_calls, describe_responses, raised, output, fcall,
          fret>>

NoCall == [clusters |-> <<>>, filter_value |-> <<>>, filter_mode |-> "substring"]
NoRet == [raised |-> FALSE, value |-> <<>>]

\* main() up to cluster_mgr = EcsClusterManager(module)
Init ==
  /\ pc = "list"
  /\ name \in Patterns
  /\ search_mode \in SearchModes
  /\ pages \in {SplitPages(n, np) : n \in ArnCounts, np \in 1..MaxPages}
  /\ list_calls = 0
  /\ list_arns = <<>>
  /\ cluster_arns = <<>>
  /\ arns_left = <<>>
  /\ cluster_details = <<>>
  /\ describe_calls = <<>>
  /\ describe_responses = <<>>
  /\ raised = <<>>
  /\ output = <<>>
  /\ fcall = NoCall
  /\ fret = NoRet

\* except Exception, e: module.fail_json(...)
Fail(e) ==
  /\ raised' = Append(raised, e)
  /\ output' = Append(output, FailJson(name, e))
  /\ pc' = "failed"

\* list_clusters up to the test of 'nextToken', and its return when there is none
ListClusters ==
  /\ pc = "list"
  /\ list_calls' = list_calls + 1
  /\ \/ /\ Fail(ClientError)
        /\ UNCHANGED <<list_arns, cluster_arns, arns_left>>
     \/ LET response == ListAnswer(pages, 1) IN
        /\ list_arns' = list_arns \o response.clusterArns
        /\ IF "nextToken" \in DOMAIN response /\ response.nextToken # None
             THEN /\ pc' = "list_loop"
                  /\ UNCHANGED <<cluster_arns, arns_left>>
             ELSE /\ pc' = "describe"
                  /\ cluster_arns' = list_arns'
                  /\ arns_left' = list_arns'
        /\ UNCHANGED <<raised, output>>
  /\ UNCHANGED <<name, search_mode, pages, cluster_details, describe_calls,
                 describe_responses, fcall, fret>>

\* the while loop of list_clusters: response = self.ecs_list_clusters()
ListClustersLoop ==
  /\ pc = "list_loop"
  /\ Fail(AttributeError)
  /\ UNCHANGED <<name, search_mode, pages, list_calls, list_arns, cluster_arns, arns_left,
                 cluster_details, describe_calls, describe_responses, fcall, fret>>

\* one iteration of the while loop of describe_clusters
DescribeClusters ==
  /\ pc = "describe"
  /\ Len(arns_left) > 0
  /\ describe_calls' = Append(describe_calls, BatchOf(arns_left))
  /\ \/ /\ Fail(ClientError)
        /\ UNCHANGED <<arns_left, cluster_details, describe_responses>>
     \/ \E clusters \in DescribeAnswers(BatchOf(arns_left)) :
          /\ describe_responses' = Append(describe_responses, clusters)
          /\ IF ResponseOk(clusters)
               THEN /\ cluster_details' = cluster_details \o clusters
                    /\ arns_left' = RestOf(arns_left)
                    /\ UNCHANGED <<pc, raised, output>>
               ELSE /\ Fail(DescribeErrorText(arns_left))
                    /\ UNCHANGED <<arns_left, cluster_details>>
  /\ UNCHANGED <<name, search_mode, pages, list_calls, list_arns, cluster_arns, fcall, fret>>

\* return cluster_details
DescribeClustersReturn ==
  /\ pc = "describe"
  /\ ~(Len(arns_left) > 0)
  /\ pc' = "filter"
  /\ UNCHANGED <<name, search_mode, pages, list_calls, list_arns, cluster_arns, arns_left,
                 cluster_details, describe_calls, describe_responses, raised, output, fcall,
                 fret>>

\* main: filter_clusters(cluster_details, 'clusterName', name, search_mode), then exit_json
FilterClusters ==
  /\ pc = "filter"
  /\ LET r == filter_clusters(cluster_details, "clusterName", name, search_mode) IN
       IF r.raised
         THEN Fail(r.error)
         ELSE /\ output' = Append(output, ExitJson(r.value))
              /\ pc' = "done"
              /\ UNCHANGED raised
  /\ UNCHANGED <<name, search_mode, pages, list_calls, list_arns, cluster_arns, arns_left,
                 cluster_details, describe_calls, describe_responses, fcall, fret>>

Next ==
  \/ ListClusters
  \/ ListClustersLoop
  \/ DescribeClusters
  \/ DescribeClustersReturn
  \/ FilterClusters

Spec == Init /\ [][Next]_vars

\* ------------------------------------------ filter_clusters called directly
FilterInputs ==
  UNION {[1..n -> {ClusterRecord(a) : a \in 1..NumClusters}] : n \in 0..MaxRecs}

InitFilter ==
  /\ pc = "call"
  /\ fcall \in [clusters : FilterInputs, filter_value : Patterns, filter_mode : FilterModes]
  /\ fret = NoRet
  /\ name = <<>>
  /\ search_mode = "substring"
  /\ pages = <<>>
  /\ list_calls = 0
  /\ list_arns = <<>>
  /\ cluster_arns = <<>>
  /\ arns_left = <<>>
  /\ cluster_details = <<>>
  /\ describe_calls = <<>>
  /\ describe_responses = <<>>
  /\ raised = <<>>
  /\ output = <<>>

FilterCall ==
  /\ pc = "call"
  /\ fret' = filter_clusters(fcall.clusters, "clusterName", fcall.filter_value, fcall.filter_mode)
  /\ pc' = "returned"
  /\ UNCHANGED <<name, search_mode, pages, list_calls, list_arns, cluster_arns, arns_left,
                 cluster_details, describe_calls, describe_responses, raised, output, fcall>>

NextFilter == FilterCall

SpecFilter == InitFilter /\ [][NextFilter]_vars

\* ------------------------------------------------------------- properties
RECURSIVE Concat(_)
Concat(ss) == IF ss = <<>> THEN <<>> ELSE Head(ss) \o Concat(Tail(ss))

ListReturned == pc \in {"describe", "filter", "done"} \/ describe_calls # <<>>

DescribeReturned == pc \in {"filter", "done"}

DescribeFailed ==
  raised # <<>> /\ raised[1][1] = "Unknown problem describing cluster "

ProviderFailed == raised # <<>> /\ raised[1] = ClientError

\* The k-th consecutive slice of at most 50 identifiers of arns.
Slice50(arns, k) ==
  [i \in 1..(Min(50 * k, Len(arns)) - 50 * (k - 1)) |-> arns[50 * (k - 1) + i]]

\* out is the subsequence of in at exactly the positions of kept.
IsSubseqAt(out, in, kept) ==
  \E idx \in [1..Len(out) -> 1..Len(in)] :
    /\ \A j \in 1..Len(out) : out[j] = in[idx[j]]
    /\ \A j \in 1..(Len(out) - 1) : idx[j] < idx[j + 1]
    /\ {idx[j] : j \in 1..Len(out)} = kept

\* p occurs in s as a contiguous block.
OccursIn(p, s) == \E a \in 0..Len(s) : \E b \in a..Len(s) : SubSeq(s, a + 1, b) = p

\* The word w as a whole is in the language of the pattern p: w splits into one
\* segment per pattern atom, a starred atom taking any number of characters it
\* admits and a plain atom exactly one.
InLanguage(p, w) ==
  LET atoms == {i \in 1..Len(p) : p[i] # "*"}
      m == Cardinality(atoms)
      AtomAt(r) == CHOOSE i \in atoms : Cardinality({h \in atoms : h <= i}) = r
      Admits(i, x) == p[i] = "." \/ p[i] = x
  IN \E cut \in [0..m -> 0..Len(w)] :
       /\ cut[0] = 0
       /\ cut[m] = Len(w)
       /\ \A r \in 1..m :
            /\ cut[r - 1] <= cut[r]
            /\ \A h \in (cut[r - 1] + 1)..cut[r] : Admits(AtomAt(r), w[h])
            /\ (AtomAt(r) = Len(p) \/ p[AtomAt(r) + 1] # "*") => cut[r] = cut[r - 1] + 1

SomePrefixInLanguage(p, s) == \E k \in 0..Len(s) : InLanguage(p, SubSeq(s, 1, k))

\* C1: list_clusters repeats the list call while the latest response carries a
\* nextToken and returns the identifiers of all N pages concatenated in page
\* order: unless the endpoint itself fails, it never raises, and once it has
\* returned it has made one call per page and holds every page's identifiers.
C1_ListReturnsAllPages ==
  /\ (raised # <<>> => raised[1] # AttributeError)
  /\ (ListReturned => /\ list_calls = Len(pages)
                      /\ cluster_arns = Concat(pages))

\* C2: once describe_clusters has returned for n identifiers it has issued
\* exactly ceil(n/50) calls, the k-th carrying the k-th consecutive slice of at
\* most 50 identifiers, and its result is the responses' records concatenated
\* in call order (the empty sequence, with no call, for n = 0).
C2_DescribeBatches ==
  DescribeReturned =>
    /\ Len(describe_calls) = (Len(cluster_arns) + 49) \div 50
    /\ \A k \in 1..Len(describe_calls) : describe_calls[k] = Slice50(cluster_arns, k)
    /\ Len(describe_responses) = Len(describe_calls)
    /\ cluster_details = Concat(describe_responses)
    /\ (cluster_arns = <<>> => describe_calls = <<>> /\ cluster_details = <<>>)

C2_Witness ==
  /\ pc = "filter"
  /\ Len(cluster_arns) = 120
  /\ Len(describe_calls) = 3
  /\ Len(describe_calls[3]) = 20
  /\ Len(cluster_details) = 120

\* C5: describe_clusters raises its error exactly when an answered describe
\* call returned zero records; a shorter, non-empty response is accepted and
\* its records are accumulated like any other; the
\* zero-record response is the last response and belongs to the last call
\* issued, every call issued is a distinct consecutive slice (no retry), and
\* nothing is returned.
C5_DescribeFailsOnZeroRecords ==
  LET zero == {k \in 1..Len(describe_responses) : Len(describe_responses[k]) = 0} IN
  /\ DescribeFailed <=> zero # {}
  /\ zero # {} =>
       /\ zero = {Len(describe_responses)}
       /\ Len(describe_calls) = Len(describe_responses)
       /\ pc = "failed"
       /\ \A j \in 1..Len(output) : "clusters" \notin DOMAIN output[j]
  /\ \A k \in 1..Len(describe_calls) : describe_calls[k] = Slice50(cluster_arns, k)
  /\ zero = {} => cluster_details = Concat(describe_responses)

C5_Witness ==
  /\ DescribeFailed
  /\ Len(cluster_arns) > 100
  /\ Len(describe_responses) = 2
  /\ Len(describe_responses[1]) = 49
  /\ Len(describe_responses[2]) = 0
  /\ Len(describe_calls) = 2

\* C6: when describe_clusters fails on a zero-record response, the identifiers
\* named in its error are exactly those of the batch that was requested.
C6_ErrorNamesBatch ==
  DescribeFailed =>
    /\ raised[1][2] = describe_calls[Len(describe_calls)]
    /\ Len(raised[1][2]) <= 50

\* C7: in a successful invocation every record of the returned 'clusters' is,
\* unaltered, one of the records the describe calls returned, and those calls
\* were made for identifiers of the listing only.
C7_ResultSubsetOfDescribed ==
  pc = "done" =>
    /\ \A j \in 1..Len(output[1].clusters) :
         \E k \in 1..Len(describe_responses) : \E i \in 1..Len(describe_responses[k]) :
           output[1].clusters[j] = describe_responses[k][i]
    /\ \A k \in 1..Len(describe_calls) : \A i \in 1..Len(describe_calls[k]) :
         \E h \in 1..Len(list_arns) : describe_calls[k][i] = list_arns[h]

C7_Witness ==
  /\ pc = "done"
  /\ search_mode = "exact"
  /\ Len(output[1].clusters) > 0
  /\ Len(output[1].clusters) < Len(cluster_details)
  /\ Len(describe_responses) = 3

\* C8: once a provider call has failed or describe_clusters has raised its
\* zero-record error, the invocation has ended with exactly one result, a
\* failure whose message carries the name parameter and the error text and no
\* 'clusters'; from then on no provider call is issued.
C8_SingleFatalFailure ==
  /\ [](ProviderFailed \/ DescribeFailed =>
          /\ pc = "failed"
          /\ Len(raised) = 1
          /\ Len(output) = 1
          /\ DOMAIN output[1] = {"failed", "msg"}
          /\ output[1].failed
          /\ output[1].msg[2] = name
          /\ output[1].msg[4] = raised[1]
          /\ Len(describe_calls) - Len(describe_responses) \in {0, 1}
          /\ \A k \in 1..Len(describe_calls) : describe_calls[k] = Slice50(cluster_arns, k))
  /\ [][ProviderFailed \/ DescribeFailed =>
          /\ list_calls' = list_calls
          /\ describe_calls' = describe_calls
          /\ output' = output]_vars

C8_Witness ==
  /\ ProviderFailed
  /\ pc = "failed"
  /\ name # <<>>
  /\ Len(describe_calls) = 2
  /\ Len(cluster_details) = 50

\* C10: with an empty name, modes 'substring' and 'regex' return every
\* described record in describe order, and mode 'exact' returns exactly the
\* records whose clusterName is empty.
C10_EmptyNameIsIdentity ==
  (pc = "done" /\ name = <<>>) =>
    IF search_mode \in {"substring", "regex"}
      THEN /\ output[1].clusters = cluster_details
           /\ output[1].clusters = Concat(describe_responses)
      ELSE /\ \A j \in 1..Len(output[1].clusters) : output[1].clusters[j].clusterName = <<>>
           /\ Len(output[1].clusters)
                = Cardinality({i \in 1..Len(cluster_details) :
                                 cluster_details[i].clusterName = <<>>})

C10_Witness ==
  /\ pc = "done"
  /\ name = <<>>
  /\ search_mode = "substring"
  /\ Len(output[1].clusters) = 120
  /\ output[1].clusters[4].clusterName = <<>>

\* C3: in modes 'substring' and 'exact' filter_clusters returns, in input
\* order and without repetition, exactly the input records whose clusterName
\* contains (respectively equals) the pattern, and leaves its input as it was.
C3_SubstringExactFilter ==
  /\ []((pc = "returned" /\ fcall.filter_mode \in {"substring", "exact"}) =>
          /\ ~fret.raised
          /\ IsSubseqAt(fret.value, fcall.clusters,
               {i \in 1..Len(fcall.clusters) :
                  IF fcall.filter_mode = "substring"
                    THEN OccursIn(fcall.filter_value, fcall.clusters[i].clusterName)
                    ELSE fcall.clusters[i].clusterName = fcall.filter_value}))
  /\ [][fcall' = fcall]_vars

C3_Witness ==
  /\ pc = "returned"
  /\ fcall.filter_mode = "substring"
  /\ fcall.filter_value = <<"b">>
  /\ Len(fcall.clusters) = 2
  /\ fcall.clusters[1].clusterName = <<"a">>
  /\ fcall.clusters[2].clusterName = <<"a", "b">>
  /\ fret.value = <<fcall.clusters[2]>>

\* C4: in mode 'regex' filter_clusters keeps a record exactly when some prefix
\* of its clusterName is in the language of the pattern: a name that only
\* begins with a match is kept, a name the pattern matches only further in is
\* dropped.
C4_RegexPrefixMatch ==
  (pc = "returned" /\ fcall.filter_mode = "regex" /\ ~fret.raised) =>
    IsSubseqAt(fret.value, fcall.clusters,
      {i \in 1..Len(fcall.clusters) :
         SomePrefixInLanguage(fcall.filter_value, fcall.clusters[i].clusterName)})

C4_Witness ==
  /\ pc = "returned"
  /\ fcall.filter_mode = "regex"
  /\ fcall.filter_value = <<"a">>
  /\ Len(fcall.clusters) = 2
  /\ fcall.clusters[1].clusterName = <<"a", "b">>
  /\ fcall.clusters[2].clusterName = <<"b", "a">>
  /\ ~InLanguage(fcall.filter_value, fcall.clusters[1].clusterName)
  /\ OccursIn(fcall.filter_value, fcall.clusters[2].clusterName)
  /\ ~fret.raised
  /\ fret.value = <<fcall.clusters[1]>>

====
